---------------------------- MODULE Spec2Model ----------------------------
(***************************************************************************)
(* A model of pointlander/bigvector (src/main.go and its two earlier       *)
(* revisions under src/unnamed): the circular context window, the          *)
(* tokenizer and vector accumulator of ProcessStream, the corpus merge     *)
(* and the two ranking consumers of demo().                                *)
(*                                                                         *)
(* A Go string is modelled as a sequence of runes, a rune as a one         *)
(* character TLA+ string, so "" is << >> and + is \o.                      *)
(***************************************************************************)
EXTENDS Integers, Sequences, FiniteSets, TLC

VARIABLES
    buffer,     \* a CircularBuffer driven directly by Push calls
    pushed,     \* history: every string given to Push on buffer, in order
    p           \* the local state of one ProcessStream call: pc, in (the
                \* stream), pos (runes read), word, buffer, Vector, Words,
                \* cache, Name, and the history emitted (the words pushed)
VARIABLES
    files,      \* demo: the files of the data directory, as <<name, text>> records
    procs,      \* demo: one ProcessFile goroutine per file: pc and its BigVector b
    done,       \* demo: the buffered channel done
    spawned,    \* demo: files the first for loop has started a goroutine for
    inFlight,   \* demo: inFlight
    vectors,    \* demo: vectors, a Vectors (Documents and Words)
    mpc,        \* demo: where the main goroutine is
    printed     \* demo: the names printed by the receive loop, in order
VARIABLES
    query,      \* demo: query, the vector of queryBook (Nil when absent)
    distances,  \* demo: distances
    filled,     \* history: distances as the range loop left it, before the sort
    rpc,        \* demo: where the document ranking is
    queryVector, \* demo: queryVector, the vector of queryWord (Nil when absent)
    best,       \* demo: best
    fed,        \* history: the candidates given to insert, in order
    wpc         \* demo: where the word ranking is

VARIABLES
    heap,       \* the objects the goroutines hold by reference (the BigVectors,
                \* their slices and maps, the caches, the windows, the corpus
                \* word vectors), by identity
    access      \* history: who made the last step on the heap, and the objects
                \* it read and wrote

bufVars == <<buffer, pushed>>
heapVars == <<heap, access>>
procVars == <<p>>
corpusVars == <<files, procs, done, spawned, inFlight, vectors, mpc, printed>>
rankVars == <<query, distances, filled, rpc>>
wordVars == <<queryVector, best, fed, wpc>>
vars == <<buffer, pushed, p, files, procs, done, spawned, inFlight, vectors, mpc, printed,
          query, distances, filled, rpc, queryVector, best, fed, wpc, heap, access>>

-----------------------------------------------------------------------------
(* Constants of the program and bounds of the analysis *)

\* const bufferSize = 17
bufferSize == 17

\* const vectorSize = 1024 in the program; the analysis uses short vectors.
vectorSize == 3

\* Number of Push calls explored on the stand-alone buffer.
MaxPush == 18

\* Longest of the exhaustively enumerated input streams.
MaxStreamLen == 5

\* Most files in the data directory.
MaxFiles == 3

\* make(chan *BigVector, 8) in the program; the analysis uses a short
\* channel, so that a directory can hold more files than the channel holds
\* results.
doneCapacity == 2

\* Most documents of a corpus that is ranked.
MaxDocs == 3

\* Most words of a corpus whose words are ranked.
MaxWords == 4

\* len(best), 20 in the program; the analysis uses a short list.
BestLen == 3

\* Number of insert calls explored on best alone.
MaxInserts == 5

\* The strings pushed on the stand-alone buffer.
PushTokens == {<<"a">>, <<"b">>}

-----------------------------------------------------------------------------
(* CircularBuffer: Buffer is indexed 0..bufferSize-1 as the Go slice is *)

NewCircularBuffer ==
    [Buffer |-> [i \in 0..(bufferSize - 1) |-> <<>>], Index |-> 0, Previous |-> 0]

\* variant: Previous follows Index instead of naming the slot written
Push_keepPrevious(c, a) ==
    [Buffer |-> [c.Buffer EXCEPT ![c.Index] = a],
     Index |-> (c.Index + 1) % bufferSize,
     Previous |-> (c.Index + 1) % bufferSize]

Push(c, a) ==
    [Buffer |-> [c.Buffer EXCEPT ![c.Index] = a],
     Index |-> (c.Index + 1) % bufferSize,
     Previous |-> c.Index]

\* variant: the offset counted from slot 0 instead of from Index
Item_fromZero(c, index) == c.Buffer[index % bufferSize]

Item(c, index) == c.Buffer[(c.Index + index) % bufferSize]

GetPrevious(c) == c.Buffer[c.Previous]

-----------------------------------------------------------------------------
(* Runes: unicode.IsLetter, unicode.ToLower and the UTF-8 encoding, on the  *)
(* ASCII runes the analysed streams are made of                             *)

LowerCase ==
    <<"a", "b", "c", "d", "e", "f", "g", "h", "i", "j", "k", "l", "m",
      "n", "o", "p", "q", "r", "s", "t", "u", "v", "w", "x", "y", "z">>

UpperCase ==
    <<"A", "B", "C", "D", "E", "F", "G", "H", "I", "J", "K", "L", "M",
      "N", "O", "P", "Q", "R", "S", "T", "U", "V", "W", "X", "Y", "Z">>

Range(s) == {s[i] : i \in DOMAIN s}

IndexOf(s, r) == CHOOSE i \in DOMAIN s : s[i] = r

IsLetter(r) == r \in Range(LowerCase) \cup Range(UpperCase)

\* variant: no case folding
ToLower_identity(r) == r

ToLower(r) == IF r \in Range(UpperCase) THEN LowerCase[IndexOf(UpperCase, r)] ELSE r

\* The one-byte UTF-8 encoding of the ASCII runes in use.
Punctuation == (" " :> 32) @@ ("!" :> 33) @@ ("'" :> 39) @@ ("-" :> 45) @@ ("1" :> 49)

ByteOf ==
    [r \in Range(LowerCase) \cup Range(UpperCase) \cup DOMAIN Punctuation |->
        IF r \in Range(LowerCase) THEN 96 + IndexOf(LowerCase, r)
        ELSE IF r \in Range(UpperCase) THEN 64 + IndexOf(UpperCase, r)
        ELSE Punctuation[r]]

-----------------------------------------------------------------------------
(* hash: FNV-1 (multiply by the prime, then xor the byte).  The model keeps *)
(* the low 16 bits of the 64-bit sum: the low 16 bits of a product and of   *)
(* an xor depend only on the low 16 bits of the operands, so this is the    *)
(* real hash modulo 2^16.                                                    *)

RECURSIVE Xor(_, _)
Xor(x, y) ==
    IF x = 0 THEN y
    ELSE IF y = 0 THEN x
    ELSE ((x + y) % 2) + 2 * Xor(x \div 2, y \div 2)

RECURSIVE FnvWrite(_, _)
\* the sum after the first n bytes of a; 8997 and 435 are the low 16 bits of
\* the FNV-1 64-bit offset basis and prime
FnvWrite(a, n) ==
    IF n = 0 THEN 8997
    ELSE Xor((FnvWrite(a, n - 1) * 435) % 65536, ByteOf[a[n]])

hash(a) == FnvWrite(a, Len(a))

-----------------------------------------------------------------------------
(* The transform of a hash: rand.New(rand.NewSource(h)) and vectorSize     *)
(* draws of rnd.Intn(6).  math/rand is not part of the repository; a linear *)
(* congruential generator stands for it: like it, a deterministic function  *)
(* of the seed and of the number of draws made.                             *)

RECURSIVE RndState(_, _)
RndState(seed, n) ==
    IF n = 0 THEN seed % 65537 ELSE (RndState(seed, n - 1) * 75 + 74) % 65537

\* the n-th rnd.Intn(6) of a generator seeded with seed
Intn6(seed, n) == (RndState(seed, n) \div 7) % 6

NewTransform(h) ==
    [i \in 1..vectorSize |->
        CASE Intn6(h, i) = 0 -> 1
          [] Intn6(h, i) = 1 -> -1
          [] OTHER -> 0]

ZeroVector == [i \in 1..vectorSize |-> 0]

VecAdd(u, v) == [i \in 1..vectorSize |-> u[i] + v[i]]

\* lookup a cached transform: the transform and the cache after the call
\* variant: the cache keyed by a few bits of the hash
lookup_truncatedKey(cache, a) ==
    LET h == hash(a) % 4 IN
    IF h \in DOMAIN cache
    THEN [transform |-> cache[h], cache |-> cache]
    ELSE LET t == NewTransform(hash(a)) IN [transform |-> t, cache |-> cache @@ (h :> t)]

lookup(cache, a) ==
    LET h == hash(a) IN
    IF h \in DOMAIN cache
    THEN [transform |-> cache[h], cache |-> cache]
    ELSE LET t == NewTransform(h) IN [transform |-> t, cache |-> cache @@ (h :> t)]

-----------------------------------------------------------------------------
(* ProcessStream: one step per ReadRune *)

\* the offset of a read that fails, for a reader no read of which fails
NoFail == -1

\* the locals of ProcessStream on entry.  in is what the reader can deliver and
\* failAt the offset at which a read fails with an error that is not io.EOF;
\* err records the error that ended the loop.
NewProc(name, in) ==
    [pc |-> "reading", in |-> in, pos |-> 0, word |-> <<>>,
     buffer |-> NewCircularBuffer, Vector |-> ZeroVector,
     Words |-> <<>>, cache |-> <<>>, Name |-> <<>>, name |-> name,
     emitted |-> <<>>, failAt |-> NoFail, err |-> "nil"]

\* ProcessStream on a reader whose read at offset k fails
NewFailingProc(name, in, k) == [NewProc(name, in) EXCEPT !.failAt = k]

\* compute the order 1 markov model document vector
DocumentUpdate(st) ==
    LET l == lookup(st.cache, GetPrevious(st.buffer) \o st.word) IN
    [st EXCEPT !.Vector = VecAdd(st.Vector, l.transform), !.cache = l.cache]

\* variant: the newest word as center
Center_newest(c) == Item(c, bufferSize - 1)

\* variant: the center one offset lower
Center_lowerMiddle(c) == Item(c, bufferSize \div 2 - 1)

\* variant: the center one offset higher
Center_upperMiddle(c) == Item(c, bufferSize \div 2 + 1)

Center(c) == Item(c, bufferSize \div 2)

\* compute the order 1 markov model word vector: the loop from offset i on,
\* as the word vector and the cache it leaves
\* variant: last follows current over a skipped offset too
RECURSIVE WordLoop_lastFollows(_, _, _, _, _, _)
WordLoop_lastFollows(c, center, i, last, wordVector, cache) ==
    IF i >= bufferSize THEN [wordVector |-> wordVector, cache |-> cache]
    ELSE LET current == Item(c, i) IN
         IF current = center
         THEN WordLoop_lastFollows(c, center, i + 1, current, wordVector, cache)
         ELSE LET l == lookup(cache, last \o current) IN
              WordLoop_lastFollows(c, center, i + 1, current,
                                   VecAdd(wordVector, l.transform), l.cache)

RECURSIVE WordLoop(_, _, _, _, _, _)
WordLoop(c, center, i, last, wordVector, cache) ==
    IF i >= bufferSize THEN [wordVector |-> wordVector, cache |-> cache]
    ELSE LET current == Item(c, i) IN
         IF current = center
         THEN WordLoop(c, center, i + 1, last, wordVector, cache)
         ELSE LET l == lookup(cache, last \o current) IN
              WordLoop(c, center, i + 1, current,
                       VecAdd(wordVector, l.transform), l.cache)

\* find the word vector for the center word and accumulate into it
WordUpdate(st) ==
    LET center == Center(st.buffer)
        wordVector == IF center \in DOMAIN st.Words THEN st.Words[center] ELSE ZeroVector
        r == WordLoop(st.buffer, center, 1, Item(st.buffer, 0), wordVector, st.cache)
    IN [st EXCEPT
           !.Words = [k \in DOMAIN st.Words \cup {center} |->
                         IF k = center THEN r.wordVector ELSE st.Words[k]],
           !.cache = r.cache]

\* buffer.Push(word); word = ""
PushWord(st) ==
    [st EXCEPT !.buffer = Push(st.buffer, st.word),
               !.emitted = Append(st.emitted, st.word),
               !.word = <<>>]

\* variant: the word pushed before the updates read the window
Emit_pushFirst(st) ==
    LET q == [st EXCEPT !.buffer = Push(st.buffer, st.word)] IN
    [WordUpdate(DocumentUpdate(q)) EXCEPT
        !.emitted = Append(st.emitted, st.word), !.word = <<>>]

\* the branch taken when a separator ends a non-empty word
Emit(st) == PushWord(WordUpdate(DocumentUpdate(st)))

\* the body of the for loop for the rune r
Consume(st, r) ==
    LET q == [st EXCEPT !.pos = st.pos + 1] IN
    IF IsLetter(r) \/ r = "'"
    THEN [q EXCEPT !.word = st.word \o <<ToLower(r)>>]
    ELSE IF st.word # <<>> THEN Emit(q) ELSE q

\* the err of reader.ReadRune() at the current offset
ReadErr(st) ==
    IF st.pos = st.failAt THEN "read error"
    ELSE IF st.pos >= Len(st.in) THEN "EOF"
    ELSE "nil"

\* variant: the word being built when the loop is left is emitted too
Step_flushAtEnd(st) ==
    IF ReadErr(st) # "nil"
    THEN [(IF st.word # <<>> THEN Emit(st) ELSE st) EXCEPT
             !.pc = "done", !.Name = st.name, !.err = ReadErr(st)]
    ELSE Consume(st, st.in[st.pos + 1])

\* reader.ReadRune() and what follows it; on any error, io.EOF or not, the
\* loop is left, b.Name is set and b is sent on done
Step(st) ==
    IF ReadErr(st) # "nil"
    THEN [st EXCEPT !.pc = "done", !.Name = st.name, !.err = ReadErr(st)]
    ELSE Consume(st, st.in[st.pos + 1])

-----------------------------------------------------------------------------
(* The stand-alone buffer: any sequence of Push calls *)

NoProc == [pc |-> "none"]

NewVectors == [Documents |-> <<>>, Words |-> <<>>]

\* the parts of the program a specification leaves out stay as they are here
BufferIdle == buffer = NewCircularBuffer /\ pushed = <<>>

StreamIdle == p = NoProc

CorpusIdle ==
    /\ files = <<>>
    /\ procs = <<>>
    /\ done = <<>>
    /\ spawned = 0
    /\ inFlight = 0
    /\ vectors = NewVectors
    /\ mpc = "none"
    /\ printed = <<>>

\* a nil slice: it has no elements
Nil == <<>>

RankIdle == query = Nil /\ distances = <<>> /\ filled = <<>> /\ rpc = "none"

WordsIdle == queryVector = Nil /\ best = <<>> /\ fed = <<>> /\ wpc = "none"

\* no step on the heap has been made
NoAccess == [actor |-> 0, op |-> "none", reads |-> {}, writes |-> {}]

HeapIdle == heap = <<>> /\ access = NoAccess

InitBuffer ==
    /\ buffer = NewCircularBuffer
    /\ pushed = <<>>
    /\ StreamIdle
    /\ CorpusIdle
    /\ RankIdle
    /\ WordsIdle
    /\ HeapIdle

DoPush(a) ==
    /\ Len(pushed) < MaxPush
    /\ buffer' = Push(buffer, a)
    /\ pushed' = Append(pushed, a)
    /\ UNCHANGED <<procVars, corpusVars, rankVars, wordVars, heapVars>>

NextBuffer == \E a \in PushTokens : DoPush(a)

SpecBuffer == InitBuffer /\ [][NextBuffer]_vars

-----------------------------------------------------------------------------
(* The input streams of the analysis *)

\* every stream over the runes of alphabet of length at most n
RECURSIVE StreamsUpTo(_, _)
StreamsUpTo(alphabet, n) ==
    IF n = 0 THEN {<<>>}
    ELSE LET shorter == StreamsUpTo(alphabet, n - 1) IN
         shorter \cup {Append(s, r) : s \in shorter, r \in alphabet}

\* the words of ws, each followed by one space
RECURSIVE Spaced(_)
Spaced(ws) == IF ws = <<>> THEN <<>> ELSE Head(ws) \o <<" ">> \o Spaced(Tail(ws))

wThe == <<"t", "h", "e">>
wSun == <<"s", "u", "n">>
wRises == <<"r", "i", "s", "e", "s">>
wSets == <<"s", "e", "t", "s">>

\* "the sun rises the sun sets"
SunDoc == Spaced(<<wThe, wSun, wRises, wThe, wSun>>) \o wSets

\* "Don't stop--now!"
DontStopDoc ==
    <<"D", "o", "n", "'", "t", " ", "s", "t", "o", "p", "-", "-", "n", "o", "w", "!">>

\* a stream of 22 words that fills the window and wraps it, with repeated
\* words, one of them "sun" followed by more than bufferSize \div 2 words
LongDoc ==
    Spaced(<<wThe, wSun, <<"a">>, <<"b">>, <<"a">>, <<"c">>, <<"b">>, <<"b">>,
             <<"a">>, <<"c">>, <<"a">>, wSun, <<"c">>, <<"a">>, <<"b">>, <<"a">>,
             <<"a">>, <<"c">>, <<"b">>, <<"a">>, <<"c">>, <<"b">>>>)

\* a stream of 10 words, all emitted, in which "the" and "sun" occur once, as
\* the first and the second word
TenDoc ==
    Spaced(<<wThe, wSun, <<"a">>, <<"b">>, <<"a">>, <<"c">>, <<"b">>, <<"b">>,
             <<"a">>, <<"c">>>>)

StreamRunes == {"a", "B", "'", " ", "-"}

Streams ==
    StreamsUpTo(StreamRunes, MaxStreamLen) \cup {SunDoc, DontStopDoc, LongDoc, TenDoc}

-----------------------------------------------------------------------------
(* One ProcessStream call on any of the streams *)

\* readers that fail: in the middle of "the sun rises ..", after "the sun "
\* and inside "rises", and at the first read (as the reader of a directory does)
FailingReaders ==
    {NewFailingProc("doc", SunDoc, 8), NewFailingProc("doc", SunDoc, 11),
     NewFailingProc("doc", SunDoc, 0)}

InitStream ==
    /\ p \in {NewProc("doc", in) : in \in Streams} \cup FailingReaders
    /\ BufferIdle
    /\ CorpusIdle
    /\ RankIdle
    /\ WordsIdle
    /\ HeapIdle

ReadRune ==
    /\ p.pc = "reading"
    /\ p' = Step(p)
    /\ UNCHANGED <<bufVars, corpusVars, rankVars, wordVars, heapVars>>

NextStream == ReadRune

SpecStream == InitStream /\ [][NextStream]_vars

-----------------------------------------------------------------------------
(* demo: one ProcessFile goroutine per file, the receive loop and Merge *)

\* a second stream of 14 words that shares words with LongDoc
LongDoc2 ==
    Spaced(<<<<"b">>, <<"a">>, wSun, <<"a">>, <<"b">>, <<"b">>, <<"c">>, <<"a">>,
             <<"b">>, <<"a">>, <<"c">>, <<"a">>, <<"b">>, <<"a">>>>)

\* the files a data directory is made of: name, text, whether os.Open
\* succeeds on it and the offset at which a read of it fails.  data/E cannot be
\* opened; a read of data/F fails after "the sun ".
CorpusFiles ==
    {[name |-> "data/A", text |-> SunDoc, opens |-> TRUE, failAt |-> NoFail],
     [name |-> "data/B", text |-> SunDoc, opens |-> TRUE, failAt |-> NoFail],
     [name |-> "data/C", text |-> LongDoc, opens |-> TRUE, failAt |-> NoFail],
     [name |-> "data/D", text |-> LongDoc2, opens |-> TRUE, failAt |-> NoFail],
     [name |-> "data/E", text |-> SunDoc, opens |-> FALSE, failAt |-> NoFail],
     [name |-> "data/F", text |-> SunDoc, opens |-> TRUE, failAt |-> 8]}

\* the directories: the sequences without repetition of at most n files
RECURSIVE Directories(_)
Directories(n) ==
    IF n = 0 THEN {<<>>}
    ELSE LET shorter == Directories(n - 1) IN
         shorter \cup {d \in {Append(e, f) : e \in shorter, f \in CorpusFiles} :
                          \A i, j \in DOMAIN d : d[i] = d[j] => i = j}

\* ProcessStream run to its end: the state in which it sends b on done
RECURSIVE Run(_)
Run(st) == IF st.pc = "done" THEN st ELSE Run(Step(st))

\* the BigVector b that ProcessStream sends
BigVectorOf(st) == [Name |-> st.Name, Vector |-> st.Vector, Words |-> st.Words]

NoBigVector == [Name |-> <<>>]

\* what ProcessFile sends for each file, computed once per file
\* the locals of ProcessStream when it sends b, computed once per file
RanFor == [f \in CorpusFiles |-> Run(NewFailingProc(f.name, f.text, f.failAt))]

SentFor == [f \in CorpusFiles |-> BigVectorOf(RanFor[f])]

\* a goroutine has panicked: the Go runtime ends the whole program, every
\* goroutine with it
Crashed == \E i \in DOMAIN procs : procs[i].pc = "panic"

\* variant: a word vector assigned instead of added
Merge_lastWins(v, vector) ==
    [Documents |-> [n \in DOMAIN v.Documents \cup {vector.Name} |->
                       IF n = vector.Name THEN vector.Vector ELSE v.Documents[n]],
     Words |-> [w \in DOMAIN v.Words \cup DOMAIN vector.Words |->
                   IF w \in DOMAIN vector.Words THEN vector.Words[w] ELSE v.Words[w]]]

Merge(v, vector) ==
    [Documents |-> [n \in DOMAIN v.Documents \cup {vector.Name} |->
                       IF n = vector.Name THEN vector.Vector ELSE v.Documents[n]],
     Words |-> [w \in DOMAIN v.Words \cup DOMAIN vector.Words |->
                   IF w \notin DOMAIN vector.Words THEN v.Words[w]
                   ELSE VecAdd(IF w \in DOMAIN v.Words THEN v.Words[w] ELSE ZeroVector,
                               vector.Words[w])]]

InitCorpus ==
    /\ files \in Directories(MaxFiles)
    /\ procs = [i \in DOMAIN files |-> [pc |-> "idle", b |-> NoBigVector]]
    /\ done = <<>>
    /\ spawned = 0
    /\ inFlight = 0
    /\ vectors = NewVectors
    /\ mpc = "spawn"
    /\ printed = <<>>
    /\ BufferIdle
    /\ StreamIdle
    /\ RankIdle
    /\ WordsIdle
    /\ HeapIdle

\* go ProcessFile(dataLocation+file.Name(), done); inFlight++
Spawn ==
    /\ ~Crashed
    /\ mpc = "spawn"
    /\ spawned < Len(files)
    /\ spawned' = spawned + 1
    /\ procs' = [procs EXCEPT ![spawned + 1].pc = "running"]
    /\ inFlight' = inFlight + 1
    /\ UNCHANGED <<files, done, vectors, mpc, printed, bufVars, procVars, rankVars, wordVars, heapVars>>

\* the first for loop ends; vectors := NewVectors()
StartReceiving ==
    /\ ~Crashed
    /\ mpc = "spawn"
    /\ spawned = Len(files)
    /\ mpc' = "receive"
    /\ vectors' = NewVectors
    /\ UNCHANGED <<files, procs, done, spawned, inFlight, printed, bufVars, procVars, rankVars, wordVars, heapVars>>

\* goroutine i: ProcessFile up to the send on done, or to panic(err) when
\* os.Open fails
ProcessFile(i) ==
    /\ ~Crashed
    /\ procs[i].pc = "running"
    /\ procs' = [procs EXCEPT
                    ![i] = IF files[i].opens
                           THEN [pc |-> "sending", b |-> SentFor[files[i]]]
                           ELSE [pc |-> "panic", b |-> NoBigVector]]
    /\ UNCHANGED <<files, done, spawned, inFlight, vectors, mpc, printed, bufVars, procVars, rankVars, wordVars, heapVars>>

\* goroutine i: done <- b, which waits while the channel is full
Send(i) ==
    /\ ~Crashed
    /\ procs[i].pc = "sending"
    /\ Len(done) < doneCapacity
    /\ done' = Append(done, procs[i].b)
    /\ procs' = [procs EXCEPT ![i].pc = "exited"]
    /\ UNCHANGED <<files, spawned, inFlight, vectors, mpc, printed, bufVars, procVars, rankVars, wordVars, heapVars>>

\* variant: inFlight not counted down
Receive_keepsInFlight ==
    /\ ~Crashed
    /\ mpc = "receive"
    /\ inFlight > 0
    /\ done # <<>>
    /\ done' = Tail(done)
    /\ inFlight' = inFlight
    /\ printed' = Append(printed, Head(done).Name)
    /\ vectors' = Merge(vectors, Head(done))
    /\ UNCHANGED <<files, procs, spawned, mpc, bufVars, procVars, rankVars, wordVars, heapVars>>

\* vector := <-done; inFlight--; fmt.Println(vector.Name); vectors.Merge(vector)
Receive ==
    /\ ~Crashed
    /\ mpc = "receive"
    /\ inFlight > 0
    /\ done # <<>>
    /\ done' = Tail(done)
    /\ inFlight' = inFlight - 1
    /\ printed' = Append(printed, Head(done).Name)
    /\ vectors' = Merge(vectors, Head(done))
    /\ UNCHANGED <<files, procs, spawned, mpc, bufVars, procVars, rankVars, wordVars, heapVars>>

\* variant: the receive loop left when the channel is empty
StartRanking_whenDrained ==
    /\ ~Crashed
    /\ mpc = "receive"
    /\ done = <<>>
    /\ mpc' = "rank"
    /\ UNCHANGED <<files, procs, done, spawned, inFlight, vectors, printed, bufVars, procVars, rankVars, wordVars, heapVars>>

\* the receive loop ends with inFlight = 0 and the ranking begins
StartRanking ==
    /\ ~Crashed
    /\ mpc = "receive"
    /\ inFlight = 0
    /\ mpc' = "rank"
    /\ UNCHANGED <<files, procs, done, spawned, inFlight, vectors, printed, bufVars, procVars, rankVars, wordVars, heapVars>>

NextCorpus ==
    \/ Spawn
    \/ StartReceiving
    \/ \E i \in DOMAIN procs : ProcessFile(i)
    \/ \E i \in DOMAIN procs : Send(i)
    \/ Receive
    \/ StartRanking

SpecCorpus == InitCorpus /\ [][NextCorpus]_vars

\* the steps of the main goroutine
Main == Spawn \/ StartReceiving \/ Receive \/ StartRanking

\* the steps of goroutine i
Goroutine(i) == i \in DOMAIN procs /\ (ProcessFile(i) \/ Send(i))

\* the directories all files of which can be opened
InitFanIn ==
    /\ InitCorpus
    /\ \A i \in DOMAIN files : files[i].opens

\* demo under the Go scheduler, which lets every goroutine that can run take
\* its next step: a goroutine is not left waiting for ever while it is able
\* to go on
SpecFanIn ==
    /\ InitFanIn
    /\ [][NextCorpus]_vars
    /\ WF_vars(Main)
    /\ \A i \in 1..MaxFiles : WF_vars(Goroutine(i))

-----------------------------------------------------------------------------
(* demo on the heap.  The goroutines hand each other references: the channel *)
(* carries a *BigVector, and a slice or a map assigned is shared, not        *)
(* copied.  An object is named by the goroutine that made it (0 is the main  *)
(* goroutine), by its kind and, for a word vector, by its word.              *)

Obj(owner, kind, key) == [owner |-> owner, kind |-> kind, key |-> key]

\* b, b.Vector, b.Words, cache and buffer of the ProcessStream of goroutine i
BigVectorAt(i) == Obj(i, "BigVector", <<>>)

VectorAt(i) == Obj(i, "Vector", <<>>)

WordsAt(i) == Obj(i, "Words", <<>>)

CacheAt(i) == Obj(i, "cache", <<>>)

BufferAt(i) == Obj(i, "buffer", <<>>)

\* the slice made for the word w by goroutine i (by Merge when i is 0)
WordVectorAt(i, w) == Obj(i, "wordVector", w)

\* the heap h with the objects of the function new made or overwritten
Stored(h, new) ==
    [x \in DOMAIN h \cup DOMAIN new |-> IF x \in DOMAIN new THEN new[x] ELSE h[x]]

\* goroutine i: os.Open, then the entry of ProcessStream, which makes b, its
\* vector and word map, the cache and the window; or panic(err)
OpenFile(i) ==
    /\ ~Crashed
    /\ procs[i].pc = "running"
    /\ IF files[i].opens
       THEN LET new == (BigVectorAt(i) :> [Name |-> <<>>, Vector |-> VectorAt(i),
                                           Words |-> WordsAt(i)])
                       @@ (VectorAt(i) :> ZeroVector)
                       @@ (WordsAt(i) :> <<>>)
                       @@ (CacheAt(i) :> <<>>)
                       @@ (BufferAt(i) :> NewCircularBuffer)
            IN /\ procs' = [procs EXCEPT ![i] = [pc |-> "streaming", b |-> BigVectorAt(i)]]
               /\ heap' = Stored(heap, new)
               /\ access' = [actor |-> i, op |-> "open", reads |-> {},
                             writes |-> DOMAIN new]
       ELSE /\ procs' = [procs EXCEPT ![i] = [pc |-> "panic", b |-> NoBigVector]]
            /\ UNCHANGED heapVars
    /\ UNCHANGED <<files, done, spawned, inFlight, vectors, mpc, printed, bufVars, procVars, rankVars, wordVars>>

\* goroutine i: the loop of ProcessStream and b.Name = name.  It reads and
\* writes b.Vector, b.Words and the word vectors it makes, the cache and the
\* window, all reached from its own locals.
StreamFile(i) ==
    /\ ~Crashed
    /\ procs[i].pc = "streaming"
    /\ LET st == RanFor[files[i]]
           b == heap[procs[i].b]
           new == (procs[i].b :> [b EXCEPT !.Name = st.Name])
                  @@ (b.Vector :> st.Vector)
                  @@ (b.Words :> [w \in DOMAIN st.Words |-> WordVectorAt(i, w)])
                  @@ (CacheAt(i) :> st.cache)
                  @@ (BufferAt(i) :> st.buffer)
                  @@ [x \in {WordVectorAt(i, w) : w \in DOMAIN st.Words} |-> st.Words[x.key]]
       IN /\ heap' = Stored(heap, new)
          /\ access' = [actor |-> i, op |-> "stream",
                        reads |-> {procs[i].b, b.Vector, b.Words, CacheAt(i), BufferAt(i)},
                        writes |-> DOMAIN new]
    /\ procs' = [procs EXCEPT ![i].pc = "sending"]
    /\ UNCHANGED <<files, done, spawned, inFlight, vectors, mpc, printed, bufVars, procVars, rankVars, wordVars>>

\* Merge on the heap: the heap and v after v.Merge(vector), and the objects
\* read and written.  vector is a reference to a BigVector; v.Documents and
\* v.Words map to references.
\* variant: the first word vector met for a word kept as the corpus vector
MergeOnHeap_keepFirst(h, v, vector) ==
    LET b == h[vector]
        words == h[b.Words]
        wordVector(w) == IF w \in DOMAIN v.Words THEN v.Words[w] ELSE words[w]
        sums == [x \in {wordVector(w) : w \in DOMAIN words} |->
                    VecAdd(h[x], h[words[x.key]])]
    IN [heap |-> Stored(h, sums),
        vectors |-> [Documents |-> [n \in DOMAIN v.Documents \cup {b.Name} |->
                                       IF n = b.Name THEN b.Vector ELSE v.Documents[n]],
                     Words |-> [w \in DOMAIN v.Words \cup DOMAIN words |->
                                   IF w \in DOMAIN words THEN wordVector(w) ELSE v.Words[w]]],
        reads |-> {vector, b.Words} \cup {words[w] : w \in DOMAIN words}
                  \cup {v.Words[w] : w \in DOMAIN v.Words \cap DOMAIN words},
        writes |-> DOMAIN sums]

MergeOnHeap(h, v, vector) ==
    LET b == h[vector]
        words == h[b.Words]
        wordVector(w) == IF w \in DOMAIN v.Words THEN v.Words[w] ELSE WordVectorAt(0, w)
        sums == [x \in {wordVector(w) : w \in DOMAIN words} |->
                    VecAdd(IF x \in DOMAIN h THEN h[x] ELSE ZeroVector, h[words[x.key]])]
    IN [heap |-> Stored(h, sums),
        vectors |-> [Documents |-> [n \in DOMAIN v.Documents \cup {b.Name} |->
                                       IF n = b.Name THEN b.Vector ELSE v.Documents[n]],
                     Words |-> [w \in DOMAIN v.Words \cup DOMAIN words |->
                                   IF w \in DOMAIN words THEN wordVector(w) ELSE v.Words[w]]],
        reads |-> {vector, b.Words} \cup {words[w] : w \in DOMAIN words}
                  \cup {v.Words[w] : w \in DOMAIN v.Words \cap DOMAIN words},
        writes |-> DOMAIN sums]

\* vector := <-done; inFlight--; fmt.Println(vector.Name); vectors.Merge(vector)
ReceiveOnHeap ==
    /\ ~Crashed
    /\ mpc = "receive"
    /\ inFlight > 0
    /\ done # <<>>
    /\ done' = Tail(done)
    /\ inFlight' = inFlight - 1
    /\ printed' = Append(printed, heap[Head(done)].Name)
    /\ LET m == MergeOnHeap(heap, vectors, Head(done))
       IN /\ vectors' = m.vectors
          /\ heap' = m.heap
          /\ access' = [actor |-> 0, op |-> "merge", reads |-> m.reads, writes |-> m.writes]
    /\ UNCHANGED <<files, procs, spawned, mpc, bufVars, procVars, rankVars, wordVars>>

NextHeap ==
    \/ Spawn
    \/ StartReceiving
    \/ \E i \in DOMAIN procs : OpenFile(i)
    \/ \E i \in DOMAIN procs : StreamFile(i)
    \/ \E i \in DOMAIN procs : Send(i)
    \/ ReceiveOnHeap
    \/ StartRanking

\* the directories followed on the heap: without the copy data/B and without
\* data/F, whose BigVector is one like any other here
InitHeap ==
    /\ InitCorpus
    /\ \A i \in DOMAIN files : files[i].name \notin {"data/B", "data/F"}

SpecHeap == InitHeap /\ [][NextHeap]_vars

-----------------------------------------------------------------------------
(* Similarity.  A float64 is modelled exactly: the record [dot, norm] stands *)
(* for dot / sqrt(norm), and for NaN when norm = 0 (then dot = 0 and the     *)
(* program computes 0/0).  Rounding is not modelled.                         *)

RECURSIVE DotUpTo(_, _, _)
DotUpTo(a, b, n) == IF n = 0 THEN 0 ELSE DotUpTo(a, b, n - 1) + a[n] * b[n]

Similarity(a, b) ==
    [dot |-> DotUpTo(a, b, Len(b)),
     norm |-> DotUpTo(a, a, Len(b)) * DotUpTo(b, b, Len(b))]

FloatZero == [dot |-> 0, norm |-> 1]

IsNaN(x) == x.norm = 0

\* dot * |dot|: x < y for defined x and y iff SignedSquare(x) / x.norm < SignedSquare(y) / y.norm
SignedSquare(x) == IF x.dot < 0 THEN 0 - x.dot * x.dot ELSE x.dot * x.dot

\* the float64 comparison x < y: false when either is NaN
FloatLess(x, y) ==
    /\ ~IsNaN(x)
    /\ ~IsNaN(y)
    /\ SignedSquare(x) * y.norm < SignedSquare(y) * x.norm

\* Distances.Less on two elements
Less(di, dj) == FloatLess(dj.D, di.D)

-----------------------------------------------------------------------------
(* The corpora that are ranked *)

\* the vector with x and y as its first two components
Vec2(x, y) == [i \in 1..vectorSize |-> IF i = 1 THEN x ELSE IF i = 2 THEN y ELSE 0]

RankPool == {Vec2(1, 0), Vec2(-1, 0), Vec2(0, 1), Vec2(1, 1), Vec2(0, 0)}

DocNameList == <<"data/A", "data/B", "data/C", "data/D", "data/E">>

\* const queryBook
queryBook == "data/A"

\* the maps from some of the keys to vectors of the pool
MapsTo(keys) == UNION {[ks -> RankPool] : ks \in SUBSET keys}

\* the keys of m in the order of list
RECURSIVE KeysInOrder(_, _)
KeysInOrder(m, list) ==
    IF list = <<>> THEN <<>>
    ELSE (IF Head(list) \in DOMAIN m THEN <<Head(list)>> ELSE <<>>)
         \o KeysInOrder(m, Tail(list))

-----------------------------------------------------------------------------
(* demo: sort the documents by how well they match the query document *)

\* sort.Sort(distances).  The sort package is not part of the repository and
\* promises no stability: any permutation that Less orders.  Where a NaN
\* makes Less no ordering it promises nothing: any permutation.
Reorderings(n) == {f \in [1..n -> 1..n] : \A i, j \in 1..n : f[i] = f[j] => i = j}

SortOutcomes(d) ==
    LET all == {[i \in 1..Len(d) |-> d[f[i]]] : f \in Reorderings(Len(d))} IN
    IF \E i \in DOMAIN d : IsNaN(d[i].D) THEN all
    ELSE {q \in all : \A i, j \in DOMAIN q : i < j => ~Less(q[j], q[i])}

InitRank ==
    /\ \E m \in MapsTo({DocNameList[i] : i \in 1..MaxDocs}) :
         /\ vectors = [Documents |-> m, Words |-> <<>>]
         /\ files = [i \in 1..Cardinality(DOMAIN m) |->
                        [name |-> KeysInOrder(m, DocNameList)[i]]]
    /\ procs = <<>>
    /\ done = <<>>
    /\ spawned = Len(files)
    /\ inFlight = 0
    /\ mpc = "rank"
    /\ printed = <<>>
    /\ query = Nil
    /\ distances = <<>>
    /\ filled = <<>>
    /\ rpc = "query"
    /\ BufferIdle
    /\ StreamIdle
    /\ WordsIdle
    /\ HeapIdle

\* query := vectors.Documents[queryBook]; distances, i := make(Distances, len(files)), 0
QueryDocument ==
    /\ rpc = "query"
    /\ query' = IF queryBook \in DOMAIN vectors.Documents
                THEN vectors.Documents[queryBook] ELSE Nil
    /\ distances' = <<>>
    /\ rpc' = "range"
    /\ UNCHANGED <<filled, bufVars, procVars, corpusVars, wordVars, heapVars>>

\* one iteration of the range over vectors.Documents, in any order of the
\* keys; distances holds the elements set so far.  Similarity indexes the nil
\* query and panics when queryBook is absent.
RangeDocument(key) ==
    /\ rpc = "range"
    /\ key \in DOMAIN vectors.Documents
    /\ \A i \in DOMAIN distances : distances[i].Name # key
    /\ IF query = Nil
       THEN rpc' = "panic" /\ UNCHANGED distances
       ELSE /\ distances' = Append(distances,
                                   [D |-> Similarity(query, vectors.Documents[key]),
                                    Name |-> key])
            /\ UNCHANGED rpc
    /\ UNCHANGED <<query, filled, bufVars, procVars, corpusVars, wordVars, heapVars>>

\* the range is over; sort.Sort(distances)
SortDistances ==
    /\ rpc = "range"
    /\ Len(distances) = Cardinality(DOMAIN vectors.Documents)
    /\ filled' = distances
    /\ distances' \in SortOutcomes(distances)
    /\ rpc' = "sorted"
    /\ UNCHANGED <<query, bufVars, procVars, corpusVars, wordVars, heapVars>>

NextRank ==
    \/ QueryDocument
    \/ \E key \in DOMAIN vectors.Documents : RangeDocument(key)
    \/ SortDistances

SpecRank == InitRank /\ [][NextRank]_vars

-----------------------------------------------------------------------------
(* demo: find words that match the query word *)

wSea == <<"s", "e", "a">>

\* const queryWord
queryWord == wSea

\* the keys of vectors.Words: words, and the empty string that is the center
\* of the first updates of every document
WordNameList == <<wSea, <<"a">>, <<"b">>, <<>>, <<"c">>, <<"d">>>>

\* best := [20]struct{ best float64; word string }{}
NewBest == [c \in 1..BestLen |-> [best |-> FloatZero, word |-> <<>>]]

\* the first loop of insert: the slot (counted from 0) the candidate goes to
RECURSIVE FindSlot(_, _, _)
FindSlot(bs, b, c) ==
    IF c < Len(bs) /\ FloatLess(b, bs[c + 1].best) THEN FindSlot(bs, b, c + 1) ELSE c

\* variant: the slot found is overwritten and nothing is shifted down
ShiftIn_overwrite(bs, b, l, c) ==
    IF c < Len(bs) THEN [bs EXCEPT ![c + 1] = [best |-> b, word |-> l]] ELSE bs

\* the second loop of insert: from slot c on, each slot takes the carried
\* candidate and hands on the one it held
RECURSIVE ShiftIn(_, _, _, _)
ShiftIn(bs, b, l, c) ==
    IF c < Len(bs)
    THEN ShiftIn([bs EXCEPT ![c + 1] = [best |-> b, word |-> l]],
                 bs[c + 1].best, bs[c + 1].word, c + 1)
    ELSE bs

insert(bs, b, l) == ShiftIn(bs, b, l, FindSlot(bs, b, 0))

InitWords ==
    /\ \E m \in MapsTo({WordNameList[i] : i \in 1..MaxWords}) :
         vectors = [Documents |-> <<>>, Words |-> m]
    /\ files = <<>>
    /\ procs = <<>>
    /\ done = <<>>
    /\ spawned = 0
    /\ inFlight = 0
    /\ mpc = "rank"
    /\ printed = <<>>
    /\ queryVector = Nil
    /\ best = NewBest
    /\ fed = <<>>
    /\ wpc = "query"
    /\ BufferIdle
    /\ StreamIdle
    /\ RankIdle
    /\ HeapIdle

\* queryVector := vectors.Words[queryWord]
QueryWord ==
    /\ wpc = "query"
    /\ queryVector' = IF queryWord \in DOMAIN vectors.Words
                      THEN vectors.Words[queryWord] ELSE Nil
    /\ wpc' = "range"
    /\ UNCHANGED <<best, fed, bufVars, procVars, corpusVars, rankVars, heapVars>>

\* one iteration of the range over vectors.Words, in any order of the keys:
\* insert(Similarity(queryVector, vector), word).  Similarity indexes the nil
\* queryVector and panics when queryWord is absent.
InsertWord(word) ==
    /\ wpc = "range"
    /\ word \in DOMAIN vectors.Words
    /\ \A i \in DOMAIN fed : fed[i].word # word
    /\ IF queryVector = Nil
       THEN wpc' = "panic" /\ UNCHANGED <<best, fed>>
       ELSE LET b == Similarity(queryVector, vectors.Words[word]) IN
            /\ best' = insert(best, b, word)
            /\ fed' = Append(fed, [best |-> b, word |-> word])
            /\ UNCHANGED wpc
    /\ UNCHANGED <<queryVector, bufVars, procVars, corpusVars, rankVars, heapVars>>

\* the range is over; best is printed
PrintBest ==
    /\ wpc = "range"
    /\ Len(fed) = Cardinality(DOMAIN vectors.Words)
    /\ wpc' = "done"
    /\ UNCHANGED <<queryVector, best, fed, bufVars, procVars, corpusVars, rankVars, heapVars>>

NextWords ==
    \/ QueryWord
    \/ \E word \in DOMAIN vectors.Words : InsertWord(word)
    \/ PrintBest

SpecWords == InitWords /\ [][NextWords]_vars

-----------------------------------------------------------------------------
(* insert alone: any sequence of calls *)

\* the scores given to insert: the similarities of the vectors of the pool
\* to one of them (1, -1, 0, 1/sqrt(2) and NaN)
ScorePool == {Similarity(Vec2(1, 0), v) : v \in RankPool}

InitInsert ==
    /\ vectors = NewVectors
    /\ files = <<>>
    /\ procs = <<>>
    /\ done = <<>>
    /\ spawned = 0
    /\ inFlight = 0
    /\ mpc = "rank"
    /\ printed = <<>>
    /\ queryVector = Nil
    /\ best = NewBest
    /\ fed = <<>>
    /\ wpc = "range"
    /\ BufferIdle
    /\ StreamIdle
    /\ RankIdle
    /\ HeapIdle

\* insert(b, l), the words being those of a map: each given once
InsertCandidate(b) ==
    /\ wpc = "range"
    /\ Len(fed) < MaxInserts
    /\ Len(fed) < Len(WordNameList)
    /\ LET l == WordNameList[Len(fed) + 1] IN
         /\ best' = insert(best, b, l)
         /\ fed' = Append(fed, [best |-> b, word |-> l])
    /\ UNCHANGED <<queryVector, wpc, bufVars, procVars, corpusVars, rankVars, heapVars>>

NextInsert == \E b \in ScorePool : InsertCandidate(b)

SpecInsert == InitInsert /\ [][NextInsert]_vars

-----------------------------------------------------------------------------
(* Claims about the CircularBuffer *)

\* C1: once at least bufferSize strings have been pushed, Item(0) ..
\* Item(bufferSize-1) are the last bufferSize pushed strings in push order,
\* Item(0) the oldest and Item(bufferSize-1) the newest.
C1_WindowHoldsLastW ==
    Len(pushed) >= bufferSize =>
        \A i \in 0..(bufferSize - 1) :
            Item(buffer, i) = pushed[Len(pushed) - bufferSize + 1 + i]

\* The buffer has wrapped around and the retained window is not uniform.
C1_Witness ==
    /\ Len(pushed) > bufferSize
    /\ Item(buffer, 0) # Item(buffer, bufferSize - 1)
    /\ pushed[1] # Item(buffer, 0)

\* C2: before any Push GetPrevious is the empty string; after at least one
\* Push it is the most recently pushed string and equals Item(bufferSize-1).
C2_PreviousIsNewest ==
    /\ pushed = <<>> => GetPrevious(buffer) = <<>>
    /\ pushed # <<>> =>
        /\ GetPrevious(buffer) = pushed[Len(pushed)]
        /\ GetPrevious(buffer) = Item(buffer, bufferSize - 1)

\* A push has happened whose string differs from the one pushed before it.
C2_Witness ==
    /\ Len(pushed) >= 2
    /\ pushed[Len(pushed)] # pushed[Len(pushed) - 1]
    /\ GetPrevious(buffer) = pushed[Len(pushed)]

-----------------------------------------------------------------------------
(* Claims about ProcessStream *)

IsWordRune(r) == r \in Range(LowerCase) \cup Range(UpperCase) \cup {"'"}

Folded(r) == IF \E i \in DOMAIN UpperCase : UpperCase[i] = r
             THEN LowerCase[CHOOSE i \in DOMAIN UpperCase : UpperCase[i] = r]
             ELSE r

\* the maximal runs of word runes of s that a separator ends, as <<first, last>>
Runs(s) ==
    {run \in (1..Len(s)) \X (1..Len(s)) :
        /\ run[1] <= run[2]
        /\ \A k \in run[1]..run[2] : IsWordRune(s[k])
        /\ run[1] = 1 \/ ~IsWordRune(s[run[1] - 1])
        /\ run[2] < Len(s)
        /\ ~IsWordRune(s[run[2] + 1])}

\* C3: the words ProcessStream has emitted are, in stream order, the maximal
\* runs of letters and apostrophes of the part of the stream read so far that
\* a separator ends, each lower-cased; none is empty or holds a separator.
C3_EmittedAreSeparatedRuns ==
    LET s == SubSeq(p.in, 1, p.pos)
        runs == Runs(s)
    IN /\ Len(p.emitted) = Cardinality(runs)
       /\ \A run \in runs :
            LET k == Cardinality({other \in runs : other[1] <= run[1]}) IN
            p.emitted[k] = [j \in 1..(run[2] - run[1] + 1) |-> Folded(s[run[1] + j - 1])]
       /\ \A k \in DOMAIN p.emitted :
            /\ p.emitted[k] # <<>>
            /\ \A j \in DOMAIN p.emitted[k] : IsWordRune(p.emitted[k][j])

\* "Don't stop--now!" has been read to its end and gave don't, stop, now.
C3_Witness ==
    /\ p.pc = "done"
    /\ p.in = DontStopDoc
    /\ p.emitted = << <<"d", "o", "n", "'", "t">>, <<"s", "t", "o", "p">>, <<"n", "o", "w">> >>

\* the projection of a key, computed afresh
project(key) == NewTransform(hash(key))

\* the sum of project(t[i-1] \o t[i]) for i in 1..n, with t[0] the empty string
RECURSIVE BigramSum(_, _)
BigramSum(t, n) ==
    IF n = 0 THEN ZeroVector
    ELSE VecAdd(BigramSum(t, n - 1),
                project((IF n = 1 THEN <<>> ELSE t[n - 1]) \o t[n]))

\* C4: the document vector is the sum over the emitted words t[1..N] of
\* project(t[i-1] \o t[i]), t[0] being the empty string.
C4_DocumentVectorIsBigramSum ==
    p.Vector = BigramSum(p.emitted, Len(p.emitted))

\* Several words have been emitted, two neighbours differ and the vector is
\* not zero.
C4_Witness ==
    /\ Len(p.emitted) >= 3
    /\ p.emitted[2] # p.emitted[3]
    /\ p.Vector # ZeroVector
    /\ project(p.emitted[2] \o p.emitted[3]) # project(p.emitted[3] \o p.emitted[3])

\* the sum of project(chain[k] \o chain[k+1]) for k in 1..n
RECURSIVE ChainSum(_, _)
ChainSum(chain, n) ==
    IF n = 0 THEN ZeroVector
    ELSE VecAdd(ChainSum(chain, n - 1), project(chain[n] \o chain[n + 1]))

\* what a word update on window c adds to the vector of its center
ChainDelta(c) ==
    LET center == Item(c, bufferSize \div 2)
        NotCenter(x) == x # center
        chain == <<Item(c, 0)>>
                 \o SelectSeq([i \in 1..(bufferSize - 1) |-> Item(c, i)], NotCenter)
    IN ChainSum(chain, Len(chain) - 1)

\* C5: when a word is emitted, the vector of center = Item(bufferSize \div 2)
\* grows by the projections of the neighbouring pairs of the chain made of
\* Item(0) followed by the items at offsets 1..bufferSize-1 that differ from
\* center; no other word vector changes, and the window is changed only by
\* the Push of the emitted word.
C5_WordUpdateAddsChain ==
    [][Len(p'.emitted) > Len(p.emitted) =>
        LET center == Item(p.buffer, bufferSize \div 2)
            old == IF center \in DOMAIN p.Words THEN p.Words[center] ELSE ZeroVector
        IN /\ DOMAIN p'.Words = DOMAIN p.Words \cup {center}
           /\ p'.Words[center] = VecAdd(old, ChainDelta(p.buffer))
           /\ \A k \in DOMAIN p.Words \ {center} : p'.Words[k] = p.Words[k]
           /\ \A i \in 0..(bufferSize - 2) : Item(p'.buffer, i) = Item(p.buffer, i + 1)
           /\ Item(p'.buffer, bufferSize - 1) = p.word]_vars

\* the word emitted n-th, the empty string before the first
EmittedAt(n) == IF n >= 1 THEN p.emitted[n] ELSE <<>>

\* A word has just been emitted on a full window whose center was a real word
\* that also stood at offset 0 and at another offset, after a different word.
C5_Witness ==
    LET n == Len(p.emitted)
        half == bufferSize - bufferSize \div 2
    IN
    /\ n > bufferSize
    /\ p.word = <<>>
    /\ ~IsWordRune(p.in[p.pos])
    /\ IsWordRune(p.in[p.pos - 1])
    /\ EmittedAt(n - half) # <<>>
    /\ EmittedAt(n - bufferSize) = EmittedAt(n - half)
    /\ \E j \in (n - bufferSize + 2)..(n - 1) :
         /\ j # n - half
         /\ EmittedAt(j) = EmittedAt(n - half)
         /\ EmittedAt(j - 1) # EmittedAt(n - half)
         /\ EmittedAt(j + 1) # EmittedAt(n - half)

\* the keys the emitted words can make: one word or two concatenated
ProbeKeys ==
    LET ws == Range(p.emitted) \cup {p.word, <<>>} IN {x \o y : x \in ws, y \in ws}

\* C7: whatever the cache holds, lookup returns for a key the vector a fresh
\* computation from the key gives, and a cached vector is never changed or
\* dropped.
C7_LookupIsPure ==
    /\ [](/\ \A a \in ProbeKeys : lookup(p.cache, a).transform = project(a)
          /\ \A h \in DOMAIN p.cache : p.cache[h] = NewTransform(h))
    /\ [][\A h \in DOMAIN p.cache :
            h \in DOMAIN p'.cache /\ p'.cache[h] = p.cache[h]]_vars

\* The key of the first word has been looked up twice (by the document update
\* of the first word and by the word update of the second) and is cached.
C7_Witness ==
    /\ Len(p.emitted) >= 2
    /\ hash(p.emitted[1]) \in DOMAIN p.cache
    /\ hash(p.emitted[1] \o p.emitted[2]) \in DOMAIN p.cache
    /\ p.emitted[1] # p.emitted[2]

\* s without the letters and apostrophes it ends with
RECURSIVE WithoutFinalRun(_)
WithoutFinalRun(s) ==
    IF s # <<>> /\ IsWordRune(s[Len(s)])
    THEN WithoutFinalRun(SubSeq(s, 1, Len(s) - 1))
    ELSE s

\* C16: a run of letters and apostrophes that no separator follows before the
\* stream ends is not emitted: ProcessStream leaves the document vector, the
\* word vectors, the window and the emitted words exactly as it leaves them
\* for the same stream without that final run.
C16_FinalRunNotEmitted ==
    p.pc = "done" =>
        LET read == SubSeq(p.in, 1, p.pos)
            q == Run(NewProc(p.name, WithoutFinalRun(read)))
        IN /\ BigVectorOf(p) = BigVectorOf(q)
           /\ p.buffer = q.buffer
           /\ p.emitted = q.emitted
           /\ q.word = <<>>

\* "the sun rises the sun sets" has been read to its end: five words were
\* emitted and "sets" is the run left over.
C16_Witness ==
    /\ p.pc = "done"
    /\ p.err = "EOF"
    /\ p.in = SunDoc
    /\ p.word = wSets
    /\ Len(p.emitted) = 5
    /\ p.Vector # ZeroVector

\* C17 as stated: after a document of N emitted words, every word that
\* occurs at a position up to N - bufferSize \div 2 has an entry in the word
\* map; only words all of whose occurrences are among the last
\* bufferSize \div 2 emitted words can lack one.
C17_OnlyLastHalfLacksEntry ==
    p.pc = "done" =>
        \A j \in 1..(Len(p.emitted) - bufferSize \div 2) : p.emitted[j] \in DOMAIN p.Words

\* C17 as amended: after a document of N emitted words, every word that
\* occurs at a position up to N - (bufferSize \div 2 + 1) has an entry in the
\* word map; only words all of whose occurrences are among the last
\* bufferSize \div 2 + 1 emitted words can lack one.
C17_OnlyLastHalfPlusOneLacksEntry ==
    p.pc = "done" =>
        \A j \in 1..(Len(p.emitted) - (bufferSize \div 2 + 1)) :
            p.emitted[j] \in DOMAIN p.Words

\* A document has been processed in which the word at position
\* N - (bufferSize \div 2 + 1) has an entry and the word after it, which
\* occurs nowhere else, has none.
C17_Witness ==
    LET N == Len(p.emitted)
        k == N - (bufferSize \div 2 + 1)
    IN /\ p.pc = "done"
       /\ k >= 1
       /\ p.emitted[k] \in DOMAIN p.Words
       /\ p.Words[p.emitted[k]] # ZeroVector
       /\ \A j \in DOMAIN p.emitted : j # k + 1 => p.emitted[j] # p.emitted[k + 1]
       /\ p.emitted[k + 1] \notin DOMAIN p.Words

\* a corpus that already holds the words of "the sun rises the sun sets"
SunCorpus == Merge(NewVectors, BigVectorOf(Run(NewProc("data/A", SunDoc))))

\* C20: when the n-th word of a document is emitted, the center of the word
\* update is the word emitted bufferSize \div 2 + 1 positions earlier, and the
\* empty string when n <= bufferSize \div 2 + 1: its vector is the one the
\* update makes or changes.  So a document that has emitted a word has a word
\* vector keyed by the empty string, and Merge carries it into the corpus
\* word map, new or added to the one the corpus holds.
C20_CenterIsHalfPlusOneBack ==
    /\ [][Len(p'.emitted) > Len(p.emitted) =>
            LET n == Len(p'.emitted)
                back == bufferSize \div 2 + 1
                center == IF n > back THEN p'.emitted[n - back] ELSE <<>>
            IN /\ Item(p.buffer, bufferSize \div 2) = center
               /\ DOMAIN p'.Words = DOMAIN p.Words \cup {center}
               /\ \A w \in DOMAIN p.Words \ {center} : p'.Words[w] = p.Words[w]]_vars
    /\ [](Len(p.emitted) >= 1 =>
            /\ <<>> \in DOMAIN p.Words
            /\ <<>> \in DOMAIN Merge(NewVectors, BigVectorOf(p)).Words
            /\ Merge(NewVectors, BigVectorOf(p)).Words[<<>>] = p.Words[<<>>]
            /\ Merge(SunCorpus, BigVectorOf(p)).Words[<<>>]
                 = VecAdd(SunCorpus.Words[<<>>], p.Words[<<>>]))

\* A document of ten words has been processed: the first nine updates had
\* the empty string as center and the tenth the first word.
C20_Witness ==
    /\ p.pc = "done"
    /\ Len(p.emitted) = bufferSize \div 2 + 2
    /\ DOMAIN p.Words = {<<>>, p.emitted[1]}
    /\ p.emitted[1] # <<>>
    /\ p.Words[<<>>] # ZeroVector
    /\ p.Words[p.emitted[1]] # ZeroVector

-----------------------------------------------------------------------------
(* Claims about the corpus *)

\* goroutine i has finished ProcessStream
Processed(i) == procs[i].pc \in {"sending", "exited"}

\* the files whose BigVector the receive loop has merged
MergedFiles == {i \in DOMAIN files : Processed(i) /\ procs[i].b.Name \in Range(printed)}

\* C6 as stated: the document "the sun rises the sun sets" has a WordVector
\* entry for "sun" in its own word map and, once merged, in the corpus map.
C6_SunHasEntry ==
    \A i \in DOMAIN files :
        files[i].text = SunDoc =>
            /\ Processed(i) => wSun \in DOMAIN procs[i].b.Words
            /\ i \in MergedFiles => wSun \in DOMAIN vectors.Words

\* C6 as amended: the word map of the document "the sun rises the sun sets"
\* holds one entry, keyed by the empty string, and none for "sun"; the corpus
\* map has an entry for "sun" only when another document contributes one.
C6_SunHasNoEntry ==
    \A i \in DOMAIN files :
        (files[i].text = SunDoc /\ Processed(i)) =>
            /\ DOMAIN procs[i].b.Words = {<<>>}
            /\ wSun \in DOMAIN vectors.Words =>
                 \E j \in MergedFiles :
                    files[j].text # SunDoc /\ wSun \in DOMAIN procs[j].b.Words

\* The sun document has been processed and merged, alone or with its copy,
\* and the corpus is complete.
C6_Witness ==
    /\ mpc = "rank"
    /\ files # <<>>
    /\ \A i \in DOMAIN files : files[i].text = SunDoc
    /\ DOMAIN vectors.Words = {<<>>}
    /\ vectors.Words[<<>>] # ZeroVector

\* the sum over the files of S of their WordVector for w
RECURSIVE SumWord(_, _)
SumWord(S, w) ==
    IF S = {} THEN ZeroVector
    ELSE LET i == CHOOSE i \in S : TRUE IN
         VecAdd(procs[i].b.Words[w], SumWord(S \ {i}, w))

\* C8: whatever the order in which the BigVectors arrive on done, the corpus
\* word map holds, for every word of a merged document, the sum of the
\* WordVectors of the merged documents that have an entry for it; after the
\* last merge these are all the documents.
C8_CorpusWordsAreSums ==
    mpc \in {"receive", "rank"} =>
        /\ DOMAIN vectors.Words = UNION {DOMAIN procs[i].b.Words : i \in MergedFiles}
        /\ \A w \in DOMAIN vectors.Words :
             vectors.Words[w] =
                SumWord({i \in MergedFiles : w \in DOMAIN procs[i].b.Words}, w)
        /\ mpc = "rank" => MergedFiles = DOMAIN files

\* All of three documents have been merged, in an order that is not the
\* order of the files; two of them have a vector for the same real word and
\* the third has none for it.
C8_Witness ==
    /\ mpc = "rank"
    /\ Len(files) = 3
    /\ printed[1] = files[3].name
    /\ printed[2] = files[1].name
    /\ \E w \in DOMAIN vectors.Words :
         /\ w # <<>>
         /\ \E i, j, k \in DOMAIN files :
              /\ i # j
              /\ w \in DOMAIN procs[i].b.Words /\ procs[i].b.Words[w] # ZeroVector
              /\ w \in DOMAIN procs[j].b.Words /\ procs[j].b.Words[w] # ZeroVector
              /\ w \notin DOMAIN procs[k].b.Words

-----------------------------------------------------------------------------
(* Claims about the fan-out and the fan-in *)

\* goroutine i has returned from ProcessFile or has panicked in it
Completed(i) == procs[i].pc \in {"exited", "panic"}

C19_FanInCompletes ==
    /\ <>(mpc = "rank")
    /\ [](\A j, k \in DOMAIN printed : printed[j] = printed[k] => j = k)
    /\ [](Len(printed) + inFlight = spawned)
    /\ [](mpc = "rank" =>
            /\ Len(printed) = Len(files)
            /\ \A i \in DOMAIN files :
                 /\ procs[i].pc = "exited"
                 /\ \E k \in DOMAIN printed : printed[k] = files[i].name
                 /\ files[i].name \in DOMAIN vectors.Documents
                 /\ vectors.Documents[files[i].name] = procs[i].b.Vector
            /\ done = <<>>
            /\ inFlight = 0)

\* There are more files than done holds: done is full of results not yet
\* received and a goroutine waits to send.
C19_Witness ==
    /\ Len(files) > doneCapacity
    /\ Len(done) = doneCapacity
    /\ \E i \in DOMAIN procs : procs[i].pc = "sending"
    /\ \A i \in DOMAIN procs : procs[i].pc \in {"sending", "exited"}
    /\ mpc = "receive"
    /\ inFlight = Len(files)

\* file i cannot be opened, or a read of it fails before its end
Faulty(i) == ~files[i].opens \/ files[i].failAt # NoFail

\* C12 as stated: the task of a document that cannot be opened, or a read of
\* which fails before the end of the stream, ends in a reported failure and
\* publishes nothing: no BigVector of it is sent on done or merged.
C12_FailedDocumentPublishesNothing ==
    \A i \in DOMAIN files :
        Faulty(i) =>
            /\ procs[i].pc \in {"idle", "running", "panic"}
            /\ \A k \in DOMAIN done : done[k].Name # files[i].name
            /\ files[i].name \notin DOMAIN vectors.Documents

\* C13 as stated: when the task of one document has failed, the task of every
\* other document still runs to completion (while one of them has not
\* returned the program can take a step), and what it has computed is what it
\* computes from its own document alone.
C13_OtherTasksComplete ==
    \A i, j \in DOMAIN files :
        (procs[i].pc = "panic" /\ j # i) =>
            /\ Processed(j) =>
                 procs[j].b = BigVectorOf(Run(NewFailingProc(files[j].name, files[j].text,
                                                             files[j].failAt)))
            /\ procs[j].pc # "exited" => ENABLED NextCorpus

\* goroutine i has finished its work on b: it is sending it or has sent it
Finished(i) == procs[i].pc \in {"sending", "exited"}

\* C18: an object made by a Document Processor (its BigVector, document
\* vector, word map and word vectors, cache and window) is read or written by
\* another goroutine only after the processor has sent its result; a
\* processor makes no step on the heap once it has finished; every step
\* writes only objects of the goroutine that makes it, so that Merge leaves
\* the document vector and the word vectors of every published BigVector as
\* they are; and no object of a finished processor ever changes.
C18_PrivateUntilPublished ==
    [][(heap' # heap \/ access' # access) =>
        /\ access' # access
        /\ \A x \in access'.reads \cup access'.writes :
             x.owner # access'.actor => procs[x.owner].pc = "exited"
        /\ \A x \in access'.writes : x.owner = access'.actor
        /\ access'.actor # 0 => ~Finished(access'.actor)
        /\ \A x \in DOMAIN heap : x \notin access'.writes => heap'[x] = heap[x]
        /\ \A x \in DOMAIN heap :
             (x.owner # 0 /\ Finished(x.owner)) => heap'[x] = heap[x]]_vars

\* Merge has just added the word vector of a second document to a corpus
\* word vector that was not zero, while another processor is in its loop.
C18_Witness ==
    /\ access.op = "merge"
    /\ Len(printed) >= 2
    /\ \E i \in DOMAIN procs : procs[i].pc = "streaming"
    /\ \E x \in access.writes, y \in access.reads :
         /\ y.owner # 0
         /\ y.kind = "wordVector"
         /\ x.key = y.key
         /\ heap[y] # ZeroVector
         /\ heap[x] # heap[y]
    /\ \E n \in DOMAIN vectors.Documents : heap[vectors.Documents[n]] # ZeroVector

-----------------------------------------------------------------------------
(* Claims about the ranking *)

\* the float64 comparison x == y
FloatEqual(x, y) ==
    /\ ~IsNaN(x)
    /\ ~IsNaN(y)
    /\ SignedSquare(x) * y.norm = SignedSquare(y) * x.norm

\* where the candidate or document called name stands in the sequence d
PlaceOf(d, name) == CHOOSE i \in DOMAIN d : d[i].Name = name

\* C9 as stated: once every word has been given to insert, best holds the
\* BestLen highest-scoring candidates (all of them when there are fewer) in
\* descending score order, as sorting all candidates and truncating would;
\* slots beyond the number of candidates are left as they were created.
\* Stated for candidates whose scores are all defined.
C9_BestIsTopK ==
    (wpc = "done" /\ \A i \in DOMAIN fed : ~IsNaN(fed[i].best)) =>
        LET m == IF Len(fed) < BestLen THEN Len(fed) ELSE BestLen IN
        /\ \A c \in 1..m : \E i \in DOMAIN fed : fed[i] = best[c]
        /\ \A c, e \in 1..m : c # e => best[c].word # best[e].word
        /\ \A c, e \in 1..m : c < e => ~FloatLess(best[c].best, best[e].best)
        /\ \A i \in DOMAIN fed :
             (\A c \in 1..m : best[c].word # fed[i].word) =>
                 \A c \in 1..m : ~FloatLess(best[c].best, fed[i].best)
        /\ \A c \in (m + 1)..BestLen : best[c] = NewBest[c]

\* C10 as stated: the sorted distances hold one pair for every document of
\* the corpus, each once, by score non-increasing, and documents of equal
\* score stand in the order in which the range loop inserted them.
\* Stated for corpora in which every score is defined.
C10_RankingIsStable ==
    (rpc = "sorted" /\ \A i \in DOMAIN distances : ~IsNaN(distances[i].D)) =>
        /\ Len(distances) = Cardinality(DOMAIN vectors.Documents)
        /\ \A n \in DOMAIN vectors.Documents :
             \E i \in DOMAIN distances :
                /\ distances[i].Name = n
                /\ \A j \in DOMAIN distances : distances[j].Name = n => j = i
        /\ \A i, j \in DOMAIN distances :
             i < j => ~FloatLess(distances[i].D, distances[j].D)
        /\ \A i, j \in DOMAIN distances :
             (i < j /\ FloatEqual(distances[i].D, distances[j].D)) =>
                 PlaceOf(filled, distances[i].Name) < PlaceOf(filled, distances[j].Name)

\* C14 as stated: when queryBook is not a document of the corpus, the ranking
\* does not go on with the nil vector the map lookup yields in its place and
\* does not end with a ranking: it ends in a missing-key error.
C14_MissingKeyIsAnError ==
    queryBook \notin DOMAIN vectors.Documents =>
        /\ rpc \in {"range", "sorted"} => query # Nil
        /\ rpc # "sorted"

\* C15 as stated: with queryBook in the corpus the document ranking does not
\* crash, and in the sorted ranking a document whose score is undefined (its
\* vector or the query is all zero) stands after every document whose score
\* is defined.
C15_UndefinedScoresLast ==
    queryBook \in DOMAIN vectors.Documents =>
        /\ rpc # "panic"
        /\ rpc = "sorted" =>
             \A i, j \in DOMAIN distances :
                (i < j /\ IsNaN(distances[i].D)) => IsNaN(distances[j].D)

\* two entries of best the program cannot tell apart: the same word and equal
\* scores
SameEntry(x, y) == x.word = y.word /\ FloatEqual(x.best, y.best)

\* how many elements of the sequence d are the entry e
CountIn(d, e) == Cardinality({i \in DOMAIN d : SameEntry(d[i], e)})

\* the candidates given to insert so far and the BestLen entries best began with
Pool == fed \o NewBest

\* C21: after any sequence of insert calls with defined scores, best has
\* BestLen slots in non-increasing score order and holds the BestLen largest
\* of the candidates inserted and the BestLen initial entries (score 0, empty
\* word): every slot is one of them, none is held more often than it was
\* given, and one left out scores no more than any slot.  A candidate never
\* stands in two slots, and one that is not in best after its insert or a
\* later one never comes back.
C21_BestIsTopOfPool ==
    /\ []((\A i \in DOMAIN fed : ~IsNaN(fed[i].best)) =>
            /\ Len(best) = BestLen
            /\ \A c, e \in DOMAIN best : c < e => ~FloatLess(best[c].best, best[e].best)
            /\ \A c \in DOMAIN best :
                 /\ CountIn(Pool, best[c]) >= 1
                 /\ CountIn(best, best[c]) <= CountIn(Pool, best[c])
            /\ \A i \in DOMAIN Pool :
                 CountIn(best, Pool[i]) < CountIn(Pool, Pool[i]) =>
                     \A c \in DOMAIN best : ~FloatLess(best[c].best, Pool[i].best)
            /\ \A i \in DOMAIN fed :
                 ~SameEntry(fed[i], NewBest[1]) => CountIn(best, fed[i]) <= 1)
    /\ [][(\A i \in DOMAIN fed' : ~IsNaN(fed'[i].best)) =>
            \A i \in DOMAIN fed :
                (~SameEntry(fed[i], NewBest[1]) /\ CountIn(best, fed[i]) = 0) =>
                    CountIn(best', fed[i]) = 0]_vars

\* More than BestLen candidates have been inserted, all with defined scores: best holds
\* candidates only, of unequal scores, and a candidate of positive score
\* that entered it was pushed out of it by later ones.
C21_Witness ==
    /\ Len(fed) > BestLen
    /\ \A i \in DOMAIN fed : ~IsNaN(fed[i].best)
    /\ \A c \in DOMAIN best : best[c].word # <<>>
    /\ \E i \in DOMAIN fed :
         /\ i < Len(fed)
         /\ FloatLess(FloatZero, fed[i].best)
         /\ CountIn(best, fed[i]) = 0
    /\ \E c, e \in DOMAIN best : FloatLess(best[e].best, best[c].best)

=============================================================================
